---- MODULE Spec2Model ----
(***************************************************************************)
(* Model of src/db.py: the request-scoped session dependency obtener_bd    *)
(* with its retry loop, and the process-wide circuit breaker               *)
(* (_cb_fail_count, _cb_open_until, _cb_lock).                             *)
(*                                                                         *)
(* Time is counted in half seconds, so that int(round(x)) of a remaining   *)
(* cooldown has its .5 cases.  Back-off delays are counted in              *)
(* milliseconds.  Several worker threads call obtener_bd concurrently.     *)
(***************************************************************************)
EXTENDS Integers, FiniteSets, Sequences, TLC

\* ---------------------------------------------------------------- constants
FAILURE_THRESHOLD == 3
COOLDOWN_SECONDS == 60
DEFAULT_RETRIES == 3
INITIAL_DELAY == 200
DELAY_CEILING == 10000
None == 0
STARTUP_RETRIES == 3

\* ------------------------------------------------------------------- bounds
TickStep == 61
MaxTicks == 3
MaxFail == 4
MaxRetries == 3
JitterParts == 1
MaxBackoffRetries == 8
MaxStartupRetries == 3

\* the worker threads that run requests
Requests == {"w1", "w2"}

NoThread == "free"

\* COOLDOWN_SECONDS in half seconds
Cooldown == COOLDOWN_SECONDS * 2

VARIABLES
    now,             \* time.monotonic(), in half seconds
    RETRIES,         \* DB_RETRIES as read from the environment at import
    cb_fail_count,   \* _cb_fail_count
    cb_open_until,   \* _cb_open_until; None (0.0 in the code) when not set
    cb_lock,         \* holder of _cb_lock, NoThread when free
    pc,              \* position of each request's call of obtener_bd
    intento,         \* loop variable of the retry loop
    delay,           \* back-off base delay (ms)
    sleep_time,      \* time being slept (ms), 0 when not sleeping
    tmp,             \* value of _cb_fail_count loaded by "+= 1"
    blockExc,        \* exception the caller's block threw into the generator
    acq,             \* how the acquisition phase of the call ended
    final,           \* how the whole call ended
    retry_after,     \* Retry-After header of a 503 of this call
    probes,          \* "SELECT 1" probes run by this call
    okProbes,        \* probes of this call that succeeded
    otherFails,      \* probes of this call that raised a non-connectivity error
    sessions,        \* SessionLocal() sessions created by this call
    closes,          \* db.close() calls made by this call
    curCloses,       \* db.close() calls on the call's current session
    recorded,        \* _record_failure calls completed by this call
    sleeps,          \* time.sleep calls made by this call
    yields,          \* times this call reached "yield db"
    inWindow,        \* the call started within the window of C1
    sawOpen,         \* the breaker was open when the call was started
    streak,          \* failures recorded since the last recorded success
    lastFailAt,      \* time read by the most recent of them, 0 when none
    lastFailReached, \* _cb_fail_count >= FAILURE_THRESHOLD at that failure
    failCap,         \* connectivity failures the environment may produce in a row
    probeConn,       \* the engine.connect() connection of the call's last probe
    yieldedObj,      \* the object the call handed to "yield"
    poolTimeouts,    \* probes of this call that met an exhausted pool
    initPc,          \* position of init_db
    initI,           \* loop variable i of init_db
    startupRetries,  \* argument startup_retries of init_db
    dbWarm,          \* _db_warm
    initProbes,      \* probes run by init_db
    initSleeps,      \* time.sleep calls made by init_db
    initOutcome,     \* how init_db ended
    pingResult       \* value returned by the last ping_db

breaker == <<cb_fail_count, cb_open_until>>
history == <<streak, lastFailAt, lastFailReached>>
locals == <<intento, delay, sleep_time, tmp, blockExc>>
results == <<acq, final, retry_after>>
counters == <<probes, okProbes, otherFails, sessions, closes, curCloses, recorded, sleeps, yields>>
marks == <<inWindow, sawOpen>>
pool == <<probeConn, yieldedObj, poolTimeouts>>
startup == <<initPc, initI, startupRetries, dbWarm, initProbes, initSleeps, initOutcome,
             pingResult>>
config == <<RETRIES, failCap>>
vars == <<now, RETRIES, cb_fail_count, cb_open_until, cb_lock, pc, intento,
          delay, sleep_time, tmp, blockExc, acq, final, retry_after, probes,
          okProbes, otherFails, sessions, closes, curCloses, recorded, sleeps,
          yields, inWindow, sawOpen, streak, lastFailAt, lastFailReached,
          failCap, probeConn, yieldedObj, poolTimeouts, initPc, initI,
          startupRetries, dbWarm, initProbes, initSleeps, initOutcome,
          pingResult>>

\* ------------------------------------------------------------------ helpers
\* variant: the doubled delay is never capped
MinUncapped(a, b) == a

Min(a, b) == IF a <= b THEN a ELSE b

\* variant: int(h / 2), the fraction is cut off
RoundSecondsTruncated(h) == h \div 2

\* int(round(h / 2)) for a duration of h half seconds: Python rounds a tie
\* to the even integer.
RoundSeconds(h) ==
    IF h % 2 = 0 THEN h \div 2
    ELSE LET f == (h - 1) \div 2 IN IF f % 2 = 0 THEN f ELSE f + 1

\* variants of _circuit_is_open(): deciding on the failure counter, and
\* never finding the breaker open
CircuitIsOpenByCount == cb_fail_count >= FAILURE_THRESHOLD

CircuitNeverOpen == FALSE

\* _circuit_is_open()
CircuitIsOpen == now < cb_open_until

\* variant: no mutual exclusion
LockAlwaysFree == TRUE

\* "with _cb_lock:" can be entered
LockFree == cb_lock = NoThread

\* variant: the lock is kept after the write (the rest of the handler, with
\* its sleep, runs inside "with _cb_lock:")
LockKeptAfterRecord(r) == r

\* the end of "with _cb_lock:" in _record_failure
LockAfterRecord(r) == NoThread

\* variant: the breaker is opened by the failure that reaches the threshold
\* and by no later one
ReachedThresholdOnce(n) == n = FAILURE_THRESHOLD

\* variant: the breaker opens one failure late
ReachedThresholdStrict(n) == n > FAILURE_THRESHOLD

\* the counter test of _record_failure
ReachedThreshold(n) == n >= FAILURE_THRESHOLD

\* variant: the cooldown is not added
OpenUntilNoCooldown(t) == t

\* "_cb_open_until = _now() + COOLDOWN_SECONDS", t the clock value read
OpenUntilAt(t) == t + Cooldown

\* variant: a success resets the counter only
KeptOpenUntil(old) == old

\* "_cb_open_until = 0.0" of _record_success, old the value overwritten
ClearedOpenUntil(old) == None

\* variant: the counter is set to one instead of being incremented
FailCountAssigned(n) == 1

\* "_cb_fail_count += 1" on the value n loaded inside the lock
FailCountAfter(n) == n + 1

\* variant: the jitter goes up to half of the delay
JittersUpToHalf(d) == { ((d \div 2) * k) \div JitterParts : k \in 0..JitterParts }

\* random.uniform(0, 0.25 * delay), on a grid of JitterParts + 1 points
Jitters(d) == { ((d \div 4) * k) \div JitterParts : k \in 0..JitterParts }

\* requests that have failed an attempt and not yet recorded it
PendingFailures == Cardinality({ r \in Requests : pc[r] \in {"rf_lock", "rf_write"} })

\* the environment may produce another connectivity failure
MayFail == cb_fail_count + PendingFailures < failCap

\* variant: the loop gives up one attempt early
MoreAttemptsOffByOne(r) == intento[r] + 1 < RETRIES

\* "if intento < RETRIES": the call has attempts left
MoreAttempts(r) == intento[r] < RETRIES

\* the caller's block has thrown an exception into the generator
Thrown(r) == blockExc[r] # "none"

\* ---------------------------------------------------------------- initial
InitCommon ==
    /\ now = TickStep
    /\ cb_fail_count = 0
    /\ cb_open_until = None
    /\ cb_lock = NoThread
    /\ pc = [r \in Requests |-> "idle"]
    /\ intento = [r \in Requests |-> 0]
    /\ delay = [r \in Requests |-> 0]
    /\ sleep_time = [r \in Requests |-> 0]
    /\ tmp = [r \in Requests |-> 0]
    /\ blockExc = [r \in Requests |-> "none"]
    /\ acq = [r \in Requests |-> "pending"]
    /\ final = [r \in Requests |-> "pending"]
    /\ retry_after = [r \in Requests |-> 0]
    /\ probes = [r \in Requests |-> 0]
    /\ okProbes = [r \in Requests |-> 0]
    /\ otherFails = [r \in Requests |-> 0]
    /\ sessions = [r \in Requests |-> 0]
    /\ closes = [r \in Requests |-> 0]
    /\ curCloses = [r \in Requests |-> 0]
    /\ recorded = [r \in Requests |-> 0]
    /\ sleeps = [r \in Requests |-> 0]
    /\ yields = [r \in Requests |-> 0]
    /\ inWindow = [r \in Requests |-> FALSE]
    /\ sawOpen = [r \in Requests |-> FALSE]
    /\ streak = 0
    /\ lastFailAt = 0
    /\ lastFailReached = FALSE
    /\ probeConn = [r \in Requests |-> "none"]
    /\ yieldedObj = [r \in Requests |-> "none"]
    /\ poolTimeouts = [r \in Requests |-> 0]

\* on_startup has run init_db(startup_retries=3), which found the database
StartupOver ==
    /\ initPc = "done"
    /\ startupRetries = STARTUP_RETRIES
    /\ dbWarm = TRUE
    /\ initI = 0
    /\ initProbes = 0
    /\ initSleeps = 0
    /\ initOutcome = "returned"
    /\ pingResult = "none"

\* DB_RETRIES set to a value from 1 up to its default
Init ==
    /\ InitCommon
    /\ StartupOver
    /\ RETRIES \in 1..DEFAULT_RETRIES
    /\ failCap = MaxFail

\* DB_RETRIES set to any value from 0 up
InitAnyRetries ==
    /\ InitCommon
    /\ StartupOver
    /\ RETRIES \in 0..MaxRetries
    /\ failCap = MaxFail

\* ------------------------------------------------------------------ clock
\* variant: the failure counter is reset when the cooldown has passed
TickResettingCount ==
    /\ now + TickStep <= TickStep * MaxTicks
    /\ now' = now + TickStep
    /\ cb_fail_count' = IF cb_open_until # None /\ now + TickStep >= cb_open_until
                        THEN 0 ELSE cb_fail_count
    /\ UNCHANGED <<config, startup, pool, cb_open_until, cb_lock, pc, locals, results,
                   counters, marks, history>>

\* variant: the clock closes the breaker when the cooldown has passed
TickClearingExpired ==
    /\ now + TickStep <= TickStep * MaxTicks
    /\ now' = now + TickStep
    /\ cb_open_until' = IF now + TickStep >= cb_open_until THEN None ELSE cb_open_until
    /\ UNCHANGED <<config, startup, pool, cb_fail_count, cb_lock, pc, locals, results,
                   counters, marks, history>>

Tick ==
    /\ now + TickStep <= TickStep * MaxTicks
    /\ now' = now + TickStep
    /\ UNCHANGED <<config, startup, pool, breaker, cb_lock, pc, locals, results, counters, marks, history>>

\* ------------------------------------------------------------ obtener_bd
\* Entry of obtener_bd: the breaker check, then "delay = INITIAL_DELAY" and
\* the first evaluation of "for intento in range(1, RETRIES + 1)".
Start(r) ==
    /\ pc[r] = "idle"
    /\ sawOpen' = [sawOpen EXCEPT ![r] = now < cb_open_until]
    /\ inWindow' = [inWindow EXCEPT ![r] =
                       streak = FAILURE_THRESHOLD /\ now < lastFailAt + Cooldown]
    /\ IF CircuitIsOpen
       THEN /\ pc' = [pc EXCEPT ![r] = "rejecting"]
            /\ UNCHANGED <<intento, delay, acq, final>>
       ELSE /\ delay' = [delay EXCEPT ![r] = INITIAL_DELAY]
            /\ IF 1 <= RETRIES
               THEN /\ pc' = [pc EXCEPT ![r] = "attempt"]
                    /\ intento' = [intento EXCEPT ![r] = 1]
                    /\ UNCHANGED <<acq, final>>
               ELSE /\ pc' = [pc EXCEPT ![r] = "done"]
                    /\ acq' = [acq EXCEPT ![r] = "nothing"]
                    /\ final' = [final EXCEPT ![r] = "nothing"]
                    /\ UNCHANGED intento
    /\ UNCHANGED <<now, config, startup, pool, breaker, cb_lock, sleep_time, tmp, blockExc,
                   retry_after, counters, history>>

\* variant: a rejected request starts the cooldown again
RejectExtendingCooldown(r) ==
    /\ pc[r] = "rejecting"
    /\ retry_after' = [retry_after EXCEPT ![r] = RoundSeconds(cb_open_until - now)]
    /\ cb_open_until' = OpenUntilAt(now)
    /\ acq' = [acq EXCEPT ![r] = "503"]
    /\ final' = [final EXCEPT ![r] = "503"]
    /\ pc' = [pc EXCEPT ![r] = "done"]
    /\ UNCHANGED <<now, config, startup, pool, cb_fail_count, cb_lock, locals, counters,
                   marks, history>>

\* Lines 130-133: the remaining cooldown is computed from a second read of
\* _cb_open_until and of the clock, then the 503 is raised.
Reject(r) ==
    /\ pc[r] = "rejecting"
    /\ retry_after' = [retry_after EXCEPT ![r] = RoundSeconds(cb_open_until - now)]
    /\ acq' = [acq EXCEPT ![r] = "503"]
    /\ final' = [final EXCEPT ![r] = "503"]
    /\ pc' = [pc EXCEPT ![r] = "done"]
    /\ UNCHANGED <<now, config, startup, pool, breaker, cb_lock, locals, counters, marks, history>>

\* One attempt: db = SessionLocal(), then the probe inside
\* "with engine.connect() as conn:".  The probe runs on conn, a connection
\* leased from the pool for the probe; leaving the with block, with or
\* without an exception, gives conn back to the pool.
NewSession(r) ==
    /\ sessions' = [sessions EXCEPT ![r] = @ + 1]
    /\ probes' = [probes EXCEPT ![r] = @ + 1]
    /\ probeConn' = [probeConn EXCEPT ![r] = "released"]

\* the probe succeeds: the call goes on to _record_success()
ProbeOk(r) ==
    /\ pc[r] = "attempt"
    /\ NewSession(r)
    /\ okProbes' = [okProbes EXCEPT ![r] = @ + 1]
    /\ curCloses' = [curCloses EXCEPT ![r] = 0]
    /\ pc' = [pc EXCEPT ![r] = "rs_lock"]
    /\ UNCHANGED <<now, config, startup, yieldedObj, poolTimeouts, breaker, cb_lock, locals, results, otherFails,
                   closes, recorded, sleeps, yields, marks, history>>

\* variant: the connectivity handler does not close the session
ProbeConnFailLeaking(r) ==
    /\ pc[r] = "attempt"
    /\ MayFail
    /\ NewSession(r)
    /\ curCloses' = [curCloses EXCEPT ![r] = 0]
    /\ pc' = [pc EXCEPT ![r] = "rf_lock"]
    /\ UNCHANGED <<now, config, startup, yieldedObj, poolTimeouts, breaker, cb_lock,
                   locals, results, okProbes, otherFails, closes, recorded, sleeps,
                   yields, marks, history>>

\* the probe raises OperationalError / DBAPIError: db.close(), then the call
\* goes on to _record_failure()
ProbeConnFail(r) ==
    /\ pc[r] = "attempt"
    /\ MayFail
    /\ NewSession(r)
    /\ closes' = [closes EXCEPT ![r] = @ + 1]
    /\ curCloses' = [curCloses EXCEPT ![r] = 1]
    /\ pc' = [pc EXCEPT ![r] = "rf_lock"]
    /\ UNCHANGED <<now, config, startup, yieldedObj, poolTimeouts, breaker, cb_lock, locals, results, okProbes,
                   otherFails, recorded, sleeps, yields, marks, history>>

\* variant: any exception of the probe is handled as a connectivity failure
ProbeOtherFailAsConnFail(r) ==
    /\ pc[r] = "attempt"
    /\ MayFail
    /\ NewSession(r)
    /\ otherFails' = [otherFails EXCEPT ![r] = @ + 1]
    /\ closes' = [closes EXCEPT ![r] = @ + 1]
    /\ curCloses' = [curCloses EXCEPT ![r] = 1]
    /\ pc' = [pc EXCEPT ![r] = "rf_lock"]
    /\ UNCHANGED <<now, config, startup, yieldedObj, poolTimeouts, breaker, cb_lock, locals, results, okProbes,
                   recorded, sleeps, yields, marks, history>>

\* the probe raises any other Exception: db.close(), HTTPException(500)
ProbeOtherFail(r) ==
    /\ pc[r] = "attempt"
    /\ NewSession(r)
    /\ closes' = [closes EXCEPT ![r] = @ + 1]
    /\ curCloses' = [curCloses EXCEPT ![r] = 1]
    /\ otherFails' = [otherFails EXCEPT ![r] = @ + 1]
    /\ acq' = [acq EXCEPT ![r] = IF Thrown(r) THEN @ ELSE "500"]
    /\ final' = [final EXCEPT ![r] = "500"]
    /\ pc' = [pc EXCEPT ![r] = "done"]
    /\ UNCHANGED <<now, config, startup, yieldedObj, poolTimeouts, breaker, cb_lock, locals, retry_after, okProbes,
                   recorded, sleeps, yields, marks, history>>

\* engine.connect() finds every connection of the pool leased (pool_size
\* connections, max_overflow more) and gives up after pool_timeout:
\* sqlalchemy.exc.TimeoutError, which is neither an OperationalError nor a
\* DBAPIError.  "except Exception" handles it: db.close(), HTTPException(500).
ProbePoolTimeout(r) ==
    /\ pc[r] = "attempt"
    /\ sessions' = [sessions EXCEPT ![r] = @ + 1]
    /\ probes' = [probes EXCEPT ![r] = @ + 1]
    /\ probeConn' = [probeConn EXCEPT ![r] = "none"]
    /\ poolTimeouts' = [poolTimeouts EXCEPT ![r] = @ + 1]
    /\ closes' = [closes EXCEPT ![r] = @ + 1]
    /\ curCloses' = [curCloses EXCEPT ![r] = 1]
    /\ acq' = [acq EXCEPT ![r] = IF Thrown(r) THEN @ ELSE "500"]
    /\ final' = [final EXCEPT ![r] = "500"]
    /\ pc' = [pc EXCEPT ![r] = "done"]
    /\ UNCHANGED <<now, config, startup, yieldedObj, breaker, cb_lock, locals,
                   retry_after, okProbes, otherFails, recorded, sleeps, yields,
                   marks, history>>

\* _record_failure, entering "with _cb_lock:" and loading _cb_fail_count
RecordFailureAcquire(r) ==
    /\ pc[r] = "rf_lock"
    /\ LockFree
    /\ cb_lock' = r
    /\ tmp' = [tmp EXCEPT ![r] = cb_fail_count]
    /\ pc' = [pc EXCEPT ![r] = "rf_write"]
    /\ UNCHANGED <<now, config, startup, pool, breaker, intento, delay, sleep_time, blockExc,
                   results, counters, marks, history>>

\* _record_failure, storing the incremented counter, opening the breaker
\* when the threshold is reached, and leaving the lock
RecordFailureWrite(r) ==
    /\ pc[r] = "rf_write"
    /\ cb_fail_count' = FailCountAfter(tmp[r])
    /\ cb_open_until' = IF ReachedThreshold(tmp[r] + 1) THEN OpenUntilAt(now)
                        ELSE cb_open_until
    /\ cb_lock' = LockAfterRecord(r)
    /\ recorded' = [recorded EXCEPT ![r] = @ + 1]
    /\ streak' = streak + 1
    /\ lastFailAt' = now
    /\ lastFailReached' = (tmp[r] + 1 >= FAILURE_THRESHOLD)
    /\ pc' = [pc EXCEPT ![r] = "after_fail"]
    /\ UNCHANGED <<now, config, startup, pool, locals, results, probes, okProbes, otherFails,
                   sessions, closes, curCloses, sleeps, yields, marks>>

\* "if intento < RETRIES": the back-off sleep with its jitter
Backoff(r) ==
    /\ pc[r] = "after_fail"
    /\ MoreAttempts(r)
    /\ \E jitter \in Jitters(delay[r]) :
          sleep_time' = [sleep_time EXCEPT ![r] = delay[r] + jitter]
    /\ sleeps' = [sleeps EXCEPT ![r] = @ + 1]
    /\ pc' = [pc EXCEPT ![r] = "sleeping"]
    /\ UNCHANGED <<now, config, startup, pool, breaker, cb_lock, intento, delay, tmp, blockExc,
                   results, probes, okProbes, otherFails, sessions, closes,
                   curCloses, recorded, yields, marks, history>>

\* the sleep ends: "delay = min(delay * 2, 10.0)", "continue"
Wake(r) ==
    /\ pc[r] = "sleeping"
    /\ sleep_time' = [sleep_time EXCEPT ![r] = 0]
    /\ delay' = [delay EXCEPT ![r] = Min(delay[r] * 2, DELAY_CEILING)]
    /\ intento' = [intento EXCEPT ![r] = @ + 1]
    /\ pc' = [pc EXCEPT ![r] = "attempt"]
    /\ UNCHANGED <<now, config, startup, pool, breaker, cb_lock, tmp, blockExc, results,
                   counters, marks, history>>

\* "else": the last attempt failed, 503 with Retry-After: COOLDOWN_SECONDS
Exhausted(r) ==
    /\ pc[r] = "after_fail"
    /\ ~MoreAttempts(r)
    /\ retry_after' = [retry_after EXCEPT ![r] = COOLDOWN_SECONDS]
    /\ acq' = [acq EXCEPT ![r] = IF Thrown(r) THEN @ ELSE "503"]
    /\ final' = [final EXCEPT ![r] = "503"]
    /\ pc' = [pc EXCEPT ![r] = "done"]
    /\ UNCHANGED <<now, config, startup, pool, breaker, cb_lock, locals, counters, marks, history>>

\* _record_success: "with _cb_lock:" is entered, both fields are reset and
\* the lock is left; the call then reaches "yield db".  Nothing is read
\* inside the lock, so the whole of it is one step.
RecordSuccess(r) ==
    /\ pc[r] = "rs_lock"
    /\ LockFree
    /\ cb_fail_count' = 0
    /\ cb_open_until' = ClearedOpenUntil(cb_open_until)
    /\ cb_lock' = NoThread
    /\ streak' = 0
    /\ lastFailAt' = 0
    /\ lastFailReached' = FALSE
    /\ yields' = [yields EXCEPT ![r] = @ + 1]
    /\ yieldedObj' = [yieldedObj EXCEPT ![r] = "session"]
    /\ acq' = [acq EXCEPT ![r] = IF Thrown(r) THEN @ ELSE "yielded"]
    /\ pc' = [pc EXCEPT ![r] = "yielded"]
    /\ UNCHANGED <<now, config, startup, probeConn, poolTimeouts, locals, final, retry_after, probes, okProbes,
                   otherFails, sessions, closes, curCloses, recorded, sleeps,
                   marks>>

\* the caller's block ends normally: "finally: db.close()", "return"
BlockReturns(r) ==
    /\ pc[r] = "yielded"
    /\ ~Thrown(r)
    /\ closes' = [closes EXCEPT ![r] = @ + 1]
    /\ curCloses' = [curCloses EXCEPT ![r] = @ + 1]
    /\ final' = [final EXCEPT ![r] = "ok"]
    /\ pc' = [pc EXCEPT ![r] = "done"]
    /\ UNCHANGED <<now, config, startup, pool, breaker, cb_lock, locals, acq, retry_after,
                   probes, okProbes, otherFails, sessions, recorded, sleeps, yields,
                   marks, history>>

\* the caller's block raises an exception that is not a database error (an
\* HTTPException 404/400/401, any other Exception).  It is thrown into the
\* generator at "yield db": the inner "finally" closes the session, then
\* "except Exception" of the enclosing try closes it again and raises
\* HTTPException(500).
BlockRaises(r) ==
    /\ pc[r] = "yielded"
    /\ ~Thrown(r)
    /\ blockExc' = [blockExc EXCEPT ![r] = "http"]
    /\ closes' = [closes EXCEPT ![r] = @ + 2]
    /\ curCloses' = [curCloses EXCEPT ![r] = @ + 2]
    /\ final' = [final EXCEPT ![r] = "500"]
    /\ pc' = [pc EXCEPT ![r] = "done"]
    /\ UNCHANGED <<now, config, startup, pool, breaker, cb_lock, intento, delay, sleep_time,
                   tmp, acq, retry_after, probes, okProbes, otherFails, sessions,
                   recorded, sleeps, yields, marks, history>>

\* the caller's block raises OperationalError / DBAPIError (a query failed).
\* The inner "finally" closes the session, then the connectivity handler of
\* the enclosing try closes it again and goes on to _record_failure().
BlockRaisesDbError(r) ==
    /\ pc[r] = "yielded"
    /\ ~Thrown(r)
    /\ MayFail
    /\ blockExc' = [blockExc EXCEPT ![r] = "db"]
    /\ closes' = [closes EXCEPT ![r] = @ + 2]
    /\ curCloses' = [curCloses EXCEPT ![r] = @ + 2]
    /\ pc' = [pc EXCEPT ![r] = "rf_lock"]
    /\ UNCHANGED <<now, config, startup, pool, breaker, cb_lock, intento, delay, sleep_time,
                   tmp, results, probes, okProbes, otherFails, sessions, recorded,
                   sleeps, yields, marks, history>>

\* the generator yielded again after an exception was thrown into it: the
\* context manager driving it raises RuntimeError and closes the generator,
\* GeneratorExit runs "finally: db.close()"
GeneratorClosed(r) ==
    /\ pc[r] = "yielded"
    /\ Thrown(r)
    /\ closes' = [closes EXCEPT ![r] = @ + 1]
    /\ curCloses' = [curCloses EXCEPT ![r] = @ + 1]
    /\ final' = [final EXCEPT ![r] = "runtime_error"]
    /\ pc' = [pc EXCEPT ![r] = "done"]
    /\ UNCHANGED <<now, config, startup, pool, breaker, cb_lock, locals, acq, retry_after,
                   probes, okProbes, otherFails, sessions, recorded, sleeps, yields,
                   marks, history>>

\* the request is over; the worker thread is free for the next request
Return(r) ==
    /\ pc[r] = "done"
    /\ pc' = [pc EXCEPT ![r] = "idle"]
    /\ intento' = [intento EXCEPT ![r] = 0]
    /\ delay' = [delay EXCEPT ![r] = 0]
    /\ sleep_time' = [sleep_time EXCEPT ![r] = 0]
    /\ tmp' = [tmp EXCEPT ![r] = 0]
    /\ blockExc' = [blockExc EXCEPT ![r] = "none"]
    /\ acq' = [acq EXCEPT ![r] = "pending"]
    /\ final' = [final EXCEPT ![r] = "pending"]
    /\ retry_after' = [retry_after EXCEPT ![r] = 0]
    /\ probes' = [probes EXCEPT ![r] = 0]
    /\ okProbes' = [okProbes EXCEPT ![r] = 0]
    /\ otherFails' = [otherFails EXCEPT ![r] = 0]
    /\ sessions' = [sessions EXCEPT ![r] = 0]
    /\ closes' = [closes EXCEPT ![r] = 0]
    /\ curCloses' = [curCloses EXCEPT ![r] = 0]
    /\ recorded' = [recorded EXCEPT ![r] = 0]
    /\ sleeps' = [sleeps EXCEPT ![r] = 0]
    /\ yields' = [yields EXCEPT ![r] = 0]
    /\ inWindow' = [inWindow EXCEPT ![r] = FALSE]
    /\ probeConn' = [probeConn EXCEPT ![r] = "none"]
    /\ yieldedObj' = [yieldedObj EXCEPT ![r] = "none"]
    /\ poolTimeouts' = [poolTimeouts EXCEPT ![r] = 0]
    /\ sawOpen' = [sawOpen EXCEPT ![r] = FALSE]
    /\ UNCHANGED <<now, config, startup, breaker, cb_lock, history>>

\* ------------------------------------------------------------ specification
Next ==
    \/ Tick
    \/ \E r \in Requests : Start(r)
    \/ \E r \in Requests : Reject(r)
    \/ \E r \in Requests : ProbeOk(r)
    \/ \E r \in Requests : ProbeConnFail(r)
    \/ \E r \in Requests : ProbeOtherFail(r)
    \/ \E r \in Requests : ProbePoolTimeout(r)
    \/ \E r \in Requests : RecordFailureAcquire(r)
    \/ \E r \in Requests : RecordFailureWrite(r)
    \/ \E r \in Requests : Backoff(r)
    \/ \E r \in Requests : Wake(r)
    \/ \E r \in Requests : Exhausted(r)
    \/ \E r \in Requests : RecordSuccess(r)
    \/ \E r \in Requests : BlockReturns(r)
    \/ \E r \in Requests : BlockRaises(r)
    \/ \E r \in Requests : BlockRaisesDbError(r)
    \/ \E r \in Requests : GeneratorClosed(r)
    \/ \E r \in Requests : Return(r)

Spec == Init /\ [][Next]_vars

SpecAnyRetries == InitAnyRetries /\ [][Next]_vars

\* ---------------------------------------------------- init_db and ping_db
gate == <<config, pool, breaker, cb_lock, pc, locals, results, counters, marks, history>>

\* the application starts: on_startup is about to call init_db; no request
\* is served before it returns
InitWarmup ==
    /\ InitCommon
    /\ RETRIES = DEFAULT_RETRIES
    /\ failCap = MaxFail
    /\ initPc = "loop"
    /\ initI = 0
    /\ startupRetries \in 0..MaxStartupRetries
    /\ dbWarm = FALSE
    /\ initProbes = 0
    /\ initSleeps = 0
    /\ initOutcome = "running"
    /\ pingResult = "none"

\* variant: the loop runs once more than startup_retries
InitDbMoreAttemptsOffByOne == initI <= startupRetries

\* "for i in range(1, startup_retries + 1)" has another value for i
InitDbMoreAttempts == initI < startupRetries

\* variant: the last exception is raised again after the loop
InitDbRaisesLast == "raised"

\* after the loop: logger.error(...), and the function ends
InitDbGivesUp == "returned"

\* the for statement of init_db
InitDbLoop ==
    /\ initPc = "loop"
    /\ IF InitDbMoreAttempts
       THEN /\ initI' = initI + 1
            /\ initPc' = "probe"
            /\ UNCHANGED initOutcome
       ELSE /\ initPc' = "done"
            /\ initOutcome' = InitDbGivesUp
            /\ UNCHANGED initI
    /\ UNCHANGED <<now, gate, startupRetries, dbWarm, initProbes, initSleeps, pingResult>>

\* "SELECT 1" succeeds: _db_warm = True, return
InitDbProbeOk ==
    /\ initPc = "probe"
    /\ initProbes' = initProbes + 1
    /\ dbWarm' = TRUE
    /\ initOutcome' = "returned"
    /\ initPc' = "done"
    /\ UNCHANGED <<now, gate, initI, startupRetries, initSleeps, pingResult>>

\* the probe raises any Exception: it is kept in last_exc and
\* time.sleep(startup_delay * i) starts
InitDbProbeFail ==
    /\ initPc = "probe"
    /\ initProbes' = initProbes + 1
    /\ initSleeps' = initSleeps + 1
    /\ initPc' = "sleep"
    /\ UNCHANGED <<now, gate, initI, startupRetries, dbWarm, initOutcome, pingResult>>

\* the sleep ends, back to the for statement
InitDbWake ==
    /\ initPc = "sleep"
    /\ initPc' = "loop"
    /\ UNCHANGED <<now, gate, initI, startupRetries, dbWarm, initProbes, initSleeps,
                   initOutcome, pingResult>>

InitDbStep == InitDbLoop \/ InitDbProbeOk \/ InitDbProbeFail \/ InitDbWake

\* variant: a successful ping closes the breaker
PingDbResetting ==
    /\ \E ok \in BOOLEAN :
          /\ pingResult' = IF ok THEN "true" ELSE "false"
          /\ cb_fail_count' = IF ok THEN 0 ELSE cb_fail_count
          /\ cb_open_until' = IF ok THEN None ELSE cb_open_until
    /\ UNCHANGED <<now, config, pool, cb_lock, pc, locals, results, counters, marks,
                   history, initPc, initI, startupRetries, dbWarm, initProbes,
                   initSleeps, initOutcome>>

\* ping_db: one probe, True when it succeeds, False on any Exception
PingDb ==
    /\ \E ok \in BOOLEAN : pingResult' = IF ok THEN "true" ELSE "false"
    /\ UNCHANGED <<now, gate, initPc, initI, startupRetries, dbWarm, initProbes,
                   initSleeps, initOutcome>>

NextWarmup ==
    \/ Tick
    \/ InitDbLoop
    \/ InitDbProbeOk
    \/ InitDbProbeFail
    \/ InitDbWake
    \/ PingDb

\* the thread running init_db keeps running: a probe returns or raises
\* (connect_timeout), a sleep ends
SpecWarmup == InitWarmup /\ [][NextWarmup]_vars /\ WF_vars(InitDbStep)

\* the one worker thread of the single-worker specifications
Caller == {"w1"}

\* -------------------------------------------- the application, one worker
\* The whole life of the process with one worker thread: on_startup runs
\* init_db, requests are served once it has returned, and ping_db can be
\* called at any moment.
Serving == initPc = "done"

ServerStart == Serving /\ \E r \in Caller : Start(r)

NextServer ==
    \/ Tick
    \/ InitDbLoop
    \/ InitDbProbeOk
    \/ InitDbProbeFail
    \/ InitDbWake
    \/ PingDb
    \/ ServerStart
    \/ \E r \in Caller : Reject(r)
    \/ \E r \in Caller : ProbeOk(r)
    \/ \E r \in Caller : ProbeConnFail(r)
    \/ \E r \in Caller : ProbeOtherFail(r)
    \/ \E r \in Caller : ProbePoolTimeout(r)
    \/ \E r \in Caller : RecordFailureAcquire(r)
    \/ \E r \in Caller : RecordFailureWrite(r)
    \/ \E r \in Caller : Backoff(r)
    \/ \E r \in Caller : Wake(r)
    \/ \E r \in Caller : Exhausted(r)
    \/ \E r \in Caller : RecordSuccess(r)
    \/ \E r \in Caller : BlockReturns(r)
    \/ \E r \in Caller : BlockRaises(r)
    \/ \E r \in Caller : BlockRaisesDbError(r)
    \/ \E r \in Caller : GeneratorClosed(r)
    \/ \E r \in Caller : Return(r)

SpecServer == InitWarmup /\ [][NextServer]_vars

\* ------------------------------------------------- the back-off schedule
\* One call at a time against a database that is down, with DB_RETRIES set
\* to any value up to MaxBackoffRetries: every attempt fails, so the call
\* runs through its whole schedule of sleeps.
InitBackoff ==
    /\ InitCommon
    /\ StartupOver
    /\ RETRIES \in 1..MaxBackoffRetries
    /\ failCap = MaxBackoffRetries

NextBackoff ==
    \/ Tick
    \/ \E r \in Caller : Start(r)
    \/ \E r \in Caller : Reject(r)
    \/ \E r \in Caller : ProbeConnFail(r)
    \/ \E r \in Caller : RecordFailureAcquire(r)
    \/ \E r \in Caller : RecordFailureWrite(r)
    \/ \E r \in Caller : Backoff(r)
    \/ \E r \in Caller : Wake(r)
    \/ \E r \in Caller : Exhausted(r)
    \/ \E r \in Caller : Return(r)

SpecBackoff == InitBackoff /\ [][NextBackoff]_vars

TypeOK ==
    /\ cb_fail_count \in 0..failCap
    /\ cb_open_until \in Nat
    /\ cb_lock \in Requests \cup {NoThread}

\* ------------------------------------------------------------------ claims
InFailureRecord(r) == pc[r] \in {"rf_lock", "rf_write"}
InSuccessRecord(r) == pc[r] = "rs_lock"

\* C1: a call of obtener_bd started when exactly FAILURE_THRESHOLD
\* consecutive failures are recorded and less than the cooldown has passed
\* since the last of them is rejected with 503 and opens no session and runs
\* no probe.
C1_ShortCircuitAfterThreshold ==
    \A r \in Requests :
        inWindow[r] =>
            /\ pc[r] \in {"rejecting", "done"}
            /\ probes[r] = 0
            /\ sessions[r] = 0
            /\ (pc[r] = "done" => final[r] = "503")

C1_Witness ==
    \E r \in Requests :
        /\ inWindow[r]
        /\ pc[r] = "done"
        /\ final[r] = "503"
        /\ probes[r] = 0
        /\ cb_fail_count = FAILURE_THRESHOLD

\* C2: the entry check of obtener_bd depends on the clock only: with
\* now >= open_until the call goes on to an attempt, whose next step is a
\* probe, whatever the failure counter; with now < open_until it is rejected
\* and never probes.
C2_CheckStep(r) ==
    (pc[r] = "idle" /\ pc'[r] # "idle") =>
        IF now < cb_open_until THEN pc'[r] = "rejecting"
        ELSE pc'[r] = "attempt" /\ intento'[r] = 1

C2_AttemptStep(r) ==
    /\ (pc[r] = "attempt" /\ pc'[r] # "attempt") => probes'[r] = probes[r] + 1
    /\ (pc[r] = "rejecting" /\ pc'[r] # "rejecting") =>
           pc'[r] = "done" /\ final'[r] = "503" /\ probes'[r] = 0

C2_BreakerRecovers ==
    [][\A r \in Requests : C2_CheckStep(r) /\ C2_AttemptStep(r)]_vars

C2_Witness ==
    \E r \in Requests :
        /\ pc[r] \in {"rf_lock", "rs_lock"}
        /\ intento[r] = 1
        /\ probes[r] = 1
        /\ ~sawOpen[r]
        /\ cb_fail_count >= FAILURE_THRESHOLD
        /\ cb_open_until # None
        /\ now >= cb_open_until

\* C3: every successful probe is followed by _record_success before the
\* session is yielded, and the step that completes it leaves
\* consecutive_failures = 0 and open_until = none, whatever they were.
C3_EveryOkProbeResets ==
    \A r \in Requests :
        okProbes[r] = yields[r] + (IF InSuccessRecord(r) THEN 1 ELSE 0)

C3_YieldStep(r) ==
    yields'[r] > yields[r] => cb_fail_count' = 0 /\ cb_open_until' = None

C3_SuccessResets ==
    /\ []C3_EveryOkProbeResets
    /\ [][\A r \in Requests : C3_YieldStep(r)]_vars

C3_Witness ==
    \E r \in Requests :
        /\ pc[r] = "rs_lock"
        /\ LockFree
        /\ intento[r] >= 2
        /\ recorded[r] >= 1
        /\ cb_fail_count >= FAILURE_THRESHOLD
        /\ now < cb_open_until

\* C4 (as claimed): db.close() is called exactly once on the session of a
\* call, on every exit path.
C4_ReleasedExactlyOnce ==
    \A r \in Requests :
        /\ curCloses[r] <= 1
        /\ (pc[r] = "done" => closes[r] = sessions[r])

\* C5: a non-connectivity error of the probe ends the call at once with 500:
\* the step leaves the breaker unchanged, records no failure and does not
\* sleep, and no further attempt follows.
C5_EndsWith500 ==
    \A r \in Requests :
        otherFails[r] > 0 =>
            /\ otherFails[r] = 1
            /\ pc[r] = "done"
            /\ final[r] = "500"
            /\ (~Thrown(r) => acq[r] = "500")

C5_ErrorStep(r) ==
    otherFails'[r] > otherFails[r] =>
        /\ cb_fail_count' = cb_fail_count
        /\ cb_open_until' = cb_open_until
        /\ recorded'[r] = recorded[r]
        /\ sleeps'[r] = sleeps[r]
        /\ pc'[r] = "done"

C5_UnexpectedErrorBypassesBreaker ==
    /\ []C5_EndsWith500
    /\ [][\A r \in Requests : C5_ErrorStep(r)]_vars

C5_Witness ==
    \E r \in Requests :
        /\ otherFails[r] = 1
        /\ pc[r] = "done"
        /\ final[r] = "500"
        /\ intento[r] >= 2
        /\ recorded[r] = intento[r] - 1
        /\ cb_fail_count >= recorded[r]
        /\ cb_fail_count > 0

\* C6: a call all of whose attempts hit a connectivity failure records each
\* of them, makes exactly RETRIES probes and ends with 503 and
\* Retry-After = COOLDOWN_SECONDS.
C6_AllFailed(r) ==
    /\ pc[r] # "idle"
    /\ ~sawOpen[r]
    /\ okProbes[r] = 0
    /\ otherFails[r] = 0
    /\ poolTimeouts[r] = 0

C6_RetriesExhausted ==
    \A r \in Requests :
        C6_AllFailed(r) =>
            /\ recorded[r] = probes[r] - (IF InFailureRecord(r) THEN 1 ELSE 0)
            /\ probes[r] <= RETRIES
            /\ (pc[r] = "done" =>
                    /\ probes[r] = RETRIES
                    /\ recorded[r] = RETRIES
                    /\ final[r] = "503"
                    /\ acq[r] = "503"
                    /\ retry_after[r] = COOLDOWN_SECONDS)

C6_Witness ==
    \E r \in Requests :
        /\ C6_AllFailed(r)
        /\ pc[r] = "done"
        /\ RETRIES >= 2
        /\ probes[r] = RETRIES
        /\ final[r] = "503"
        /\ retry_after[r] = COOLDOWN_SECONDS

\* C7 (as claimed): for every value of RETRIES, the acquisition phase of a
\* finished call has yielded a session, raised 503 or raised 500.
C7_ThreeOutcomes ==
    \A r \in Requests :
        pc[r] = "done" => acq[r] \in {"yielded", "503", "500"}

\* C8 (as claimed): open_until is set and in the future exactly when the
\* most recent recorded failure, not followed by a success, found the
\* counter at or above the threshold.
C8_OpenIffLastFailureReached ==
    (cb_open_until # None /\ now < cb_open_until) <=> lastFailReached

\* C8 (amended): the initial state is {0, none}; open_until is set exactly
\* when the most recent recorded failure, not followed by a success, found
\* the counter at or above the threshold, and it is then that failure's time
\* plus the cooldown, which may already be in the past.
C8_SetIffLastFailureReached ==
    /\ (cb_open_until # None) <=> lastFailReached
    /\ cb_open_until # None =>
           /\ cb_open_until = lastFailAt + Cooldown
           /\ cb_fail_count >= FAILURE_THRESHOLD

C8_BreakerInvariant ==
    /\ cb_fail_count = 0 /\ cb_open_until = None
    /\ []C8_SetIffLastFailureReached

C8_Witness ==
    /\ cb_open_until # None
    /\ now >= cb_open_until
    /\ lastFailReached
    /\ streak >= FAILURE_THRESHOLD

\* C9: no update of the breaker is lost: the counter equals the number of
\* failures recorded since the last success, the breaker is open for a
\* cooldown from the last of them once that number has reached the
\* threshold, and at most one request is inside _record_failure or
\* _record_success.
C9_NoLostUpdates ==
    /\ cb_fail_count = streak
    /\ streak >= FAILURE_THRESHOLD => cb_open_until = lastFailAt + Cooldown
    /\ Cardinality({ r \in Requests : pc[r] = "rf_write" }) <= 1
    /\ \A r \in Requests : pc[r] = "rf_write" <=> cb_lock = r

C9_Witness ==
    \E r1, r2 \in Requests :
        /\ r1 # r2
        /\ pc[r1] = "after_fail"
        /\ pc[r2] = "after_fail"
        /\ recorded[r1] + recorded[r2] = FAILURE_THRESHOLD
        /\ okProbes[r1] = 0
        /\ okProbes[r2] = 0
        /\ cb_fail_count = FAILURE_THRESHOLD
        /\ now < cb_open_until

\* C10 (as claimed): no probe is run at a moment when the breaker is open.
C10_NoProbeWhileOpen ==
    [][\A r \in Requests : probes'[r] > probes[r] => ~(now < cb_open_until)]_vars

\* C10 (amended): the breaker is consulted once, at the entry of a call: a
\* call started while it is open is rejected without a session or a probe,
\* and only a call that passed the entry check probes.
C10_ShortCircuitAtEntry ==
    \A r \in Requests :
        /\ sawOpen[r] =>
               /\ pc[r] \in {"rejecting", "done"}
               /\ probes[r] = 0
               /\ sessions[r] = 0
               /\ sleeps[r] = 0
        /\ (pc[r] = "done" /\ sawOpen[r]) => acq[r] = "503"

C10_Witness ==
    \E r1, r2 \in Requests :
        /\ sawOpen[r1]
        /\ pc[r1] = "done"
        /\ acq[r1] = "503"
        /\ ~sawOpen[r2]
        /\ pc[r2] = "attempt"
        /\ intento[r2] >= 2
        /\ now < cb_open_until

\* C11 (as claimed): once a call has yielded, it makes no further attempt,
\* however the caller's block ends: it is never again about to open a
\* session and probe, never asleep in a back-off, never about to yield
\* again, and it yields at most once.
C11_NoAttemptAfterYield ==
    \A r \in Requests :
        yields[r] >= 1 =>
            /\ pc[r] \notin {"attempt", "sleeping", "rs_lock"}
            /\ yields[r] <= 1
            /\ okProbes[r] <= 1

\* C12 (as claimed): an HTTPException raised by the caller's block (404,
\* 400, 401) leaves obtener_bd unchanged: the call does not end with a 500
\* or a 503 of the gate.
C12_BusinessErrorPassesThrough ==
    \A r \in Requests :
        (blockExc[r] = "http" /\ pc[r] = "done") => final[r] \notin {"500", "503"}

\* C13 (as claimed): only failed probes of the acquisition reach the
\* breaker: a call has entered _record_failure no more often than its
\* probes raised a connectivity error, so an exception of the caller's block
\* changes neither _cb_fail_count nor _cb_open_until.
C13_ConnProbeFailures(r) ==
    probes[r] - okProbes[r] - otherFails[r] - poolTimeouts[r]

C13_BlockErrorLeavesBreaker ==
    \A r \in Requests :
        recorded[r] + (IF InFailureRecord(r) THEN 1 ELSE 0) <= C13_ConnProbeFailures(r)

\* C14: the Retry-After of a breaker-open rejection is _cb_open_until - now,
\* both read when the rejection is built, rounded to the nearest whole
\* second (a half goes to the even second).
C14_Rejects(r) == pc[r] = "rejecting" /\ pc'[r] = "done"

C14_IsRounded(h, secs) ==
    /\ 2 * secs - h \in {-1, 0, 1}
    /\ (h % 2 = 1) => (secs % 2 = 0)

C14_RetryAfterIsRemainingCooldown ==
    [][\A r \in Requests :
          C14_Rejects(r) =>
              /\ acq'[r] = "503"
              /\ C14_IsRounded(cb_open_until - now, retry_after'[r])]_vars

C14_Witness ==
    \E r \in Requests :
        /\ pc[r] = "done"
        /\ sawOpen[r]
        /\ acq[r] = "503"
        /\ now < cb_open_until
        /\ (cb_open_until - now) % 2 = 1
        /\ 2 * retry_after[r] = cb_open_until - now + 1

\* C15 (as claimed): while the caller's block runs, the object it was given
\* is the connection the probe of that attempt ran on, and that connection
\* is still leased to the call.
C15_YieldsProbedConnection ==
    \A r \in Requests :
        pc[r] = "yielded" =>
            /\ yieldedObj[r] = "probe_conn"
            /\ probeConn[r] = "leased"

\* C16 (as claimed): a probe that finds the pool exhausted is handled as a
\* connectivity failure: it is recorded by _record_failure and the call is
\* never ended by a 500 because of it.
C16_PoolExhaustionIsConnectivity ==
    \A r \in Requests :
        poolTimeouts[r] >= 1 =>
            /\ final[r] # "500"
            /\ recorded[r] + (IF InFailureRecord(r) THEN 1 ELSE 0) >= poolTimeouts[r]

\* C17 (as claimed): the sleep before attempt k + 1 lasts at least
\* INITIAL_DELAY * 2^(k-1) and at most the ceiling of 10 s.
RECURSIVE C17_Pow2(_)
C17_Pow2(n) == IF n <= 0 THEN 1 ELSE 2 * C17_Pow2(n - 1)

C17_DelayBetweenDoublingAndCeiling ==
    \A r \in Requests :
        pc[r] = "sleeping" =>
            /\ sleep_time[r] >= INITIAL_DELAY * C17_Pow2(intento[r] - 1)
            /\ sleep_time[r] <= DELAY_CEILING

\* C17 (amended): the sleep before attempt k + 1 lasts at least
\* b = min(INITIAL_DELAY * 2^(k-1), 10 s) and at most 1.25 * b: the cap is
\* put on the delay before the jitter is added.
C17_Base(k) ==
    LET d == INITIAL_DELAY * C17_Pow2(k - 1)
    IN  IF d > DELAY_CEILING THEN DELAY_CEILING ELSE d

C17_DelayWithinJitteredCap ==
    \A r \in Requests :
        pc[r] = "sleeping" =>
            /\ sleep_time[r] >= C17_Base(intento[r])
            /\ 4 * sleep_time[r] <= 5 * C17_Base(intento[r])

C17_Witness ==
    \E r \in Requests :
        /\ pc[r] = "sleeping"
        /\ sleeps[r] = intento[r]
        /\ INITIAL_DELAY * C17_Pow2(intento[r] - 1) > DELAY_CEILING
        /\ sleep_time[r] > DELAY_CEILING

\* C18: init_db probes at most startup_retries times, stops at its first
\* successful probe, which sets _db_warm, never lets an exception escape,
\* gives up only after startup_retries failed probes, and always ends.
C18_Bounded ==
    /\ initProbes <= startupRetries
    /\ initProbes <= initI
    /\ initSleeps <= initProbes
    /\ initOutcome # "raised"
    /\ dbWarm => (initPc = "done" /\ initSleeps = initProbes - 1)
    /\ initPc = "done" => initOutcome = "returned"
    /\ (initPc = "done" /\ ~dbWarm) => initProbes = startupRetries

C18_InitDbBoundedAndEnds == []C18_Bounded /\ <>(initPc = "done")

C18_Witness ==
    /\ initPc = "done"
    /\ ~dbWarm
    /\ startupRetries = STARTUP_RETRIES
    /\ initProbes = STARTUP_RETRIES
    /\ initOutcome = "returned"

\* C19: a call enters _record_failure with its session closed; the write of
\* _record_failure adds exactly one to _cb_fail_count, and sets
\* _cb_open_until to now + COOLDOWN_SECONDS when the new count has reached
\* FAILURE_THRESHOLD and leaves it alone otherwise.
C19_FailureStep(r) ==
    recorded'[r] = recorded[r] + 1 =>
        /\ curCloses[r] >= 1
        /\ cb_fail_count' = cb_fail_count + 1
        /\ cb_open_until' = IF cb_fail_count + 1 >= FAILURE_THRESHOLD
                            THEN now + Cooldown
                            ELSE cb_open_until

C19_FailureRecordedOnce ==
    [][\A r \in Requests : C19_FailureStep(r)]_vars

C19_Witness ==
    \E r \in Requests :
        /\ pc[r] = "after_fail"
        /\ curCloses[r] = 1
        /\ recorded[r] = FAILURE_THRESHOLD - 1
        /\ cb_fail_count = FAILURE_THRESHOLD
        /\ cb_open_until = now + Cooldown

\* C20: _cb_fail_count and _cb_open_until change only in the write of
\* _record_failure, made by the thread that holds _cb_lock, and in
\* _record_success, which takes the free lock; the lock is free again after
\* the step and no other thread is inside _record_failure meanwhile.  The
\* breaker check, the retry loop, the sleeps and the clock leave them alone.
C20_WriterStep(r) ==
    \/ pc[r] = "rf_write" /\ cb_lock = r /\ pc'[r] = "after_fail"
    \/ pc[r] = "rs_lock" /\ cb_lock = NoThread /\ pc'[r] = "yielded"

C21_SleepHoldsNoLock ==
    /\ \A r \in Requests :
           pc[r] \in {"sleeping", "attempt", "after_fail"} => cb_lock # r
    /\ \A r1, r2 \in Requests :
           (/\ r1 # r2
            /\ pc[r1] \in {"sleeping", "attempt"}
            /\ pc[r2] \in {"rf_lock", "rs_lock"}) => cb_lock = NoThread
    /\ cb_lock # NoThread => pc[cb_lock] = "rf_write"

C21_Witness ==
    \E r1, r2 \in Requests :
        /\ r1 # r2
        /\ pc[r1] = "sleeping"
        /\ sleeps[r1] >= 1
        /\ pc[r2] = "rf_write"
        /\ cb_lock = r2

\* C22: in a call, the base delay in use around attempt k is d_k, with
\* d_1 = INITIAL_DELAY and d_(k+1) = min(2 * d_k, 10 s), and the time slept
\* after the k-th failure is between d_k and 1.25 * d_k.
RECURSIVE C22_D(_)
C22_D(k) ==
    IF k <= 1 THEN INITIAL_DELAY
    ELSE LET d == 2 * C22_D(k - 1)
         IN  IF d <= DELAY_CEILING THEN d ELSE DELAY_CEILING

C22_InLoop(r) == pc[r] \in {"attempt", "rf_lock", "rf_write", "after_fail", "sleeping"}

C22_DelaySchedule ==
    \A r \in Requests :
        C22_InLoop(r) =>
            /\ intento[r] >= 1
            /\ delay[r] = C22_D(intento[r])
            /\ pc[r] = "sleeping" =>
                   /\ sleep_time[r] >= delay[r]
                   /\ 4 * sleep_time[r] <= 5 * delay[r]

C22_Witness ==
    \E r \in Requests :
        /\ pc[r] = "sleeping"
        /\ delay[r] = DELAY_CEILING
        /\ 2 * C22_D(intento[r] - 1) > DELAY_CEILING
        /\ sleep_time[r] > delay[r]
        /\ recorded[r] = intento[r]

\* C23 (as claimed): a call sleeps only between attempts: it has slept
\* exactly once before each attempt after the first, never more often than
\* its probes failed on the connection (so never after a success), never
\* when it was rejected by the open breaker, and at most RETRIES - 1 times.
C23_SleepsOnlyBetweenAttempts ==
    \A r \in Requests :
        /\ sawOpen[r] => sleeps[r] = 0
        /\ pc[r] = "attempt" => sleeps[r] = intento[r] - 1
        /\ sleeps[r] <= C13_ConnProbeFailures(r)
        /\ (RETRIES >= 1) => sleeps[r] <= RETRIES - 1
        /\ yields[r] >= 1 => pc[r] # "sleeping"

\* C24 (as claimed): the Retry-After of a rejection by the open breaker is
\* between 0 and COOLDOWN_SECONDS, whatever the other requests do between
\* the breaker check and the computation.
C24_RetryAfterInRange ==
    \A r \in Requests :
        (pc[r] = "done" /\ sawOpen[r]) =>
            /\ retry_after[r] >= 0
            /\ retry_after[r] <= COOLDOWN_SECONDS

\* C25: the end of the cooldown resets nothing: while _cb_open_until is set
\* the counter is at least FAILURE_THRESHOLD, also after the cooldown has
\* passed, and a failure recorded then, a single one, opens the breaker
\* again for a whole cooldown.
C25_Expired == cb_open_until # None /\ now >= cb_open_until

C25_CountKept == cb_open_until # None => cb_fail_count >= FAILURE_THRESHOLD

C25_FailureAfterExpiry(r) ==
    (C25_Expired /\ recorded'[r] = recorded[r] + 1) =>
        /\ cb_fail_count' > FAILURE_THRESHOLD
        /\ cb_open_until' = now + Cooldown
        /\ now' < cb_open_until'

C25_ExpiryKeepsCount ==
    []C25_CountKept /\ [][\A r \in Requests : C25_FailureAfterExpiry(r)]_vars

C25_Witness ==
    \E r \in Requests :
        /\ pc[r] = "after_fail"
        /\ intento[r] = 1
        /\ recorded[r] = 1
        /\ now >= TickStep + Cooldown
        /\ cb_fail_count = FAILURE_THRESHOLD + 1
        /\ cb_open_until = now + Cooldown

\* C26: the two steps of a rejection, the breaker check that finds it open
\* and the raise of the 503, leave _cb_fail_count, _cb_open_until and the
\* lock as they are; the call has opened no session, run no probe, closed
\* nothing and not slept.
C26_RejectionStep(r) ==
    \/ pc[r] = "idle" /\ pc'[r] = "rejecting"
    \/ pc[r] = "rejecting" /\ pc'[r] = "done"

C26_RejectionChangesNothing ==
    [][\A r \in Requests :
          C26_RejectionStep(r) =>
              /\ breaker' = breaker
              /\ cb_lock' = cb_lock
              /\ sessions'[r] = 0
              /\ probes'[r] = 0
              /\ closes'[r] = 0
              /\ sleeps'[r] = 0]_vars

C26_Witness ==
    \E r \in Requests :
        /\ pc[r] = "done"
        /\ sawOpen[r]
        /\ final[r] = "503"
        /\ sessions[r] = 0
        /\ lastFailAt < now
        /\ cb_open_until = lastFailAt + Cooldown
        /\ now < cb_open_until
        /\ cb_fail_count >= FAILURE_THRESHOLD

\* C27: _cb_open_until goes down only in a _record_success; a failure
\* recorded when the counter has already reached FAILURE_THRESHOLD sets it
\* to the time of that failure plus the cooldown, which is not less than
\* before; so with the counter at the threshold or above, _cb_open_until is
\* always the time of the latest recorded failure plus the cooldown.
C27_SuccessStep(r) == pc[r] = "rs_lock" /\ pc'[r] = "yielded"

C27_LaterFailure(r) ==
    (recorded'[r] = recorded[r] + 1 /\ cb_fail_count >= FAILURE_THRESHOLD) =>
        /\ cb_open_until' = now + Cooldown
        /\ cb_open_until' >= cb_open_until

C27_OpenUntilNeverDecreases ==
    /\ [](cb_fail_count >= FAILURE_THRESHOLD => cb_open_until = lastFailAt + Cooldown)
    /\ [][/\ cb_open_until' < cb_open_until => \E r \in Requests : C27_SuccessStep(r)
          /\ \A r \in Requests : C27_LaterFailure(r)]_vars

C27_Witness ==
    \E r \in Requests :
        /\ pc[r] = "after_fail"
        /\ ~sawOpen[r]
        /\ intento[r] >= 2
        /\ cb_fail_count = FAILURE_THRESHOLD + 1
        /\ lastFailAt > TickStep
        /\ lastFailAt < TickStep + Cooldown
        /\ cb_open_until = lastFailAt + Cooldown

\* C28: a call has at most one session open: when it is about to open the
\* session of attempt k it has opened k - 1 sessions and the last of them
\* is closed; after a failed attempt the session of that attempt is closed;
\* when the call has ended, every session it opened is closed.
C28_CurrentClosed(r) == sessions[r] = 0 \/ curCloses[r] >= 1

C28_OneSessionAtATime ==
    \A r \in Requests :
        /\ pc[r] = "attempt" =>
               /\ sessions[r] = intento[r] - 1
               /\ C28_CurrentClosed(r)
        /\ pc[r] \in {"rf_lock", "rf_write", "after_fail", "sleeping"} =>
               /\ sessions[r] = intento[r]
               /\ curCloses[r] >= 1
        /\ pc[r] \in {"rs_lock", "yielded"} =>
               /\ sessions[r] = intento[r]
               /\ curCloses[r] = 0
        /\ pc[r] = "done" =>
               /\ C28_CurrentClosed(r)
               /\ closes[r] >= sessions[r]

C28_Witness ==
    \E r \in Requests :
        /\ pc[r] = "done"
        /\ final[r] = "ok"
        /\ sessions[r] = 2
        /\ yields[r] = 1
        /\ closes[r] = 2
        /\ curCloses[r] = 1

\* C29: a step of init_db or of ping_db, whether its probe succeeds or
\* fails and whatever the breaker is at that moment, leaves _cb_fail_count,
\* _cb_open_until and the lock as they are.
C29_WarmupOrPingStep == startup' # startup

C29_WarmupAndPingLeaveBreaker ==
    [][C29_WarmupOrPingStep => (breaker' = breaker /\ cb_lock' = cb_lock)]_vars

C29_Witness ==
    /\ initPc = "done"
    /\ ~dbWarm
    /\ initProbes = STARTUP_RETRIES
    /\ pingResult = "true"
    /\ cb_fail_count >= FAILURE_THRESHOLD
    /\ now < cb_open_until

\* C30 (as claimed): with RETRIES >= FAILURE_THRESHOLD and no other request
\* at work, a call that has just ended with the retry-exhausted 503 (less
\* than a cooldown after its last failure) leaves the breaker open.
C30_ExhaustedLeavesBreakerOpen ==
    \A r \in Requests :
        (/\ pc[r] = "done"
         /\ final[r] = "503"
         /\ ~sawOpen[r]
         /\ RETRIES >= FAILURE_THRESHOLD
         /\ now < lastFailAt + Cooldown) => now < cb_open_until

====
